---- MODULE Spec2Model ----
(***************************************************************************)
(* Model of the dataset layer of dalbench (src/src/utils/dataset.cpp):     *)
(* NumericTableFactory, DataSlice, Dataset and DatasetFromCsv.             *)
(*                                                                         *)
(* Numeric tables live in a heap of slots; a NumericTablePtr is a slot     *)
(* number (Null = 0).  A slot is released as soon as no holder refers to   *)
(* it, which is what the reference counted handles of the code do.         *)
(***************************************************************************)
EXTENDS Integers, Sequences, FiniteSets, TLC

VARIABLES
    heap,      \* slot -> numeric table (NoTable for a free slot)
    src_x,     \* feature table held by the caller of the DataSlice constructors
    src_y,     \* label table held by the caller of the DataSlice constructors
    sl,        \* the caller's DataSlice object
    builder,   \* the DatasetFromCsv object
    ds,        \* the Dataset returned by DatasetFromCsv::load
    pc,        \* "slice": no builder in use, "build": load() has not returned a
               \* Dataset yet, "loaded": it has
    ret        \* outcome of the last call: value returned or exception thrown

vars == <<heap, src_x, src_y, sl, builder, ds, pc, ret>>

----------------------------------------------------------------------------
(* Bounds of the model *)

MaxRows == 3
MaxCols == 2
MaxBlocks == 3
MaxFeatures == 2
MaxResponses == 1
MaxTries == 1
CsvCols == 2
CsvRows == 1

\* size_t arithmetic wraps.  TLC integers are 32 bits wide, so the 64 bit
\* modulus of the build is scaled to 2^20; every in-range size of the model
\* is far below it and a wrapped difference is far above.
SizeMod == 2^20

\* a request of half the address space or more cannot be allocated
AllocLimit == SizeMod \div 2

----------------------------------------------------------------------------
(* Numeric tables *)

Null == 0
Wild == -1

Float == "SyclHomogenNumericTableFloat"
Double == "SyclHomogenNumericTableDouble"
Other == "Other"
Supported == {Float, Double}
NumericTableType == {Float, Double, Other}

HeapSize == 8 * (MaxBlocks + 1) + 2
Slots == 1..HeapSize

NoTable == [type |-> "none", cols |-> 0, rows |-> 0, data |-> <<>>]

\* binary32 keeps 24 significant bits: integers up to 2^24 are exact, the
\* ones up to 2^25 are rounded to the nearest even multiple of 2
FloatOf(v) ==
    IF v <= 16777216 THEN v
    ELSE LET q == v \div 2
         IN  IF v % 2 = 0 THEN v
             ELSE IF q % 2 = 0 THEN 2 * q ELSE 2 * q + 2

\* value a table of the given element type holds after a double is written
StoreAs(type, v) == IF type = Float THEN FloatOf(v) ELSE v

CeilDiv(a, b) == (a + b - 1) \div b

Range(s) == {s[i] : i \in DOMAIN s}

FreeSlot(h) == CHOOSE i \in Slots : h[i] = NoTable /\ \A j \in 1..(i - 1) : h[j] # NoTable

\* outcome of a call that may allocate: the exception thrown ("none" when it
\* returns), the heap it leaves, the value returned, and the number of rows
\* of the allocation request that was refused (0 when none was)
\* the element of a one-element set; Only({F(a) : a \in {e}}) is F applied to
\* the value of e, which is computed once
Only(S) == CHOOSE out \in S : TRUE

Result(e, h, v) == [err |-> e, heap |-> h, val |-> v, req |-> 0]

Refused(e, h, n) == [err |-> e, heap |-> h, val |-> Null, req |-> n]

create_numeric_table(h, type, num_features, num_observations, ub) ==
    IF type \notin Supported
    THEN Result("NotAvailableNumericTable", h, Null)
    ELSE IF num_observations >= AllocLimit
    THEN Refused(ub, h, num_observations)
    ELSE LET id == FreeSlot(h)
             t  == [type |-> type, cols |-> num_features, rows |-> num_observations,
                    data |-> [k \in 1..(num_features * num_observations) |-> 0]]
         IN  Result("none", [h EXCEPT ![id] = t], id)

\* what the build can do with an allocation request it cannot satisfy
AllocOutcomes == {"EmptyNumericTable", "AllocationFailure"}

----------------------------------------------------------------------------
(* DataSlice *)

EmptySlice == [x_blocks |-> <<>>, y_blocks |-> <<>>, labeled |-> FALSE]

make_empty == EmptySlice

SliceHandles(s) == (Range(s.x_blocks) \cup Range(s.y_blocks)) \ {Null, Wild}

DataSlice_clear(s) ==
    [s EXCEPT !.x_blocks = [i \in DOMAIN s.x_blocks |-> Null],
              !.y_blocks = [i \in DOMAIN s.y_blocks |-> Null]]

empty_by_handles(s) == \A h \in Range(s.x_blocks) \cup Range(s.y_blocks) : h = Null

empty(s) ==
    IF s.labeled
    THEN Len(s.x_blocks) = 0 \/ Len(s.y_blocks) = 0
    ELSE Len(s.x_blocks) = 0

\* x() and y(): the last block
x(s) ==
    IF Len(s.x_blocks) = 0 THEN [err |-> "EmptyNumericTable", val |-> Null]
    ELSE [err |-> "none", val |-> s.x_blocks[Len(s.x_blocks)]]

y(s) ==
    IF Len(s.y_blocks) = 0 THEN [err |-> "EmptyNumericTable", val |-> Null]
    ELSE [err |-> "none", val |-> s.y_blocks[Len(s.y_blocks)]]

\* what the build can do with a read past the end of the block vector: the
\* word read is null, or it is not null and is returned as a handle, or the
\* read faults
ReadOutcomes == {"null", "wild", "fault"}

\* blocks[block_index] as operator[] reads it (block_index counts from 0)
BlockAt(blocks, block_index, ub) ==
    IF block_index < Len(blocks) THEN blocks[block_index + 1]
    ELSE IF ub = "null" THEN Null ELSE Wild

block(blocks, block_index, ub) ==
    IF Len(blocks) = 0
    THEN [err |-> "EmptyNumericTable", val |-> Null]
    ELSE IF block_index >= Len(blocks) /\ ub = "fault"
    THEN [err |-> "Fault", val |-> Null]
    ELSE IF BlockAt(blocks, block_index, ub) = Null
    THEN [err |-> "EmptyNumericTable", val |-> Null]
    ELSE [err |-> "none", val |-> BlockAt(blocks, block_index, ub)]

x_block(s, block_index, ub) == block(s.x_blocks, block_index, ub)

y_block(s, block_index, ub) == block(s.y_blocks, block_index, ub)

copy_block_no_offset(h, numeric_table, type, block_index, block_size, ub) ==
    LET src       == h[numeric_table]
        num_cols  == src.cols
        num_rows  == src.rows
        start_row == (block_index * block_size) % SizeMod
        end0      == (start_row + block_size) % SizeMod
        end_row   == IF end0 > num_rows THEN num_rows ELSE end0
        nobs      == (end_row - start_row) % SizeMod
        num_elems == num_cols * nobs
    IN  Only({
                 IF made.err # "none" THEN made
                 ELSE Result("none",
                             [made.heap EXCEPT ![made.val].data =
                                 [k \in 1..num_elems |-> StoreAs(type, src.data[k])]],
                             made.val)
             : made \in {create_numeric_table(h, type, num_cols, nobs, ub)}})

copy_block(h, numeric_table, type, block_index, block_size, ub) ==
    LET src       == h[numeric_table]
        num_cols  == src.cols
        num_rows  == src.rows
        start_row == (block_index * block_size) % SizeMod
        end0      == (start_row + block_size) % SizeMod
        end_row   == IF end0 > num_rows THEN num_rows ELSE end0
        nobs      == (end_row - start_row) % SizeMod
        num_elems == num_cols * nobs
        offset    == start_row * num_cols
    IN  Only({
                 IF made.err # "none" THEN made
                 ELSE Result("none",
                             [made.heap EXCEPT ![made.val].data =
                                 [k \in 1..num_elems |-> StoreAs(type, src.data[offset + k])]],
                             made.val)
             : made \in {create_numeric_table(h, type, num_cols, nobs, ub)}})

set_block_shifted(h, s, block_index, block_size, tx, ty, type, ub) ==
    Only({
             IF cx.err # "none" THEN [cx EXCEPT !.val = s]
             ELSE IF ty = Null
             THEN Result("none", cx.heap, [s EXCEPT !.x_blocks[block_index + 1] = cx.val])
             ELSE Only({
                           IF cy.err # "none"
                           THEN [cy EXCEPT !.val =
                                    [s EXCEPT !.x_blocks[block_index + 1] = cx.val]]
                           ELSE Result("none", cy.heap,
                                       [s EXCEPT !.x_blocks[block_index + 1] = cx.val,
                                                 !.y_blocks[block_index + 1] = cy.val])
                       : cy \in {copy_block(cx.heap, ty, type, 0, block_size, ub)}})
         : cx \in {copy_block(h, tx, type, block_index, block_size, ub)}})

set_block(h, s, block_index, block_size, tx, ty, type, ub) ==
    Only({
             IF cx.err # "none" THEN [cx EXCEPT !.val = s]
             ELSE IF ty = Null
             THEN Result("none", cx.heap, [s EXCEPT !.x_blocks[block_index + 1] = cx.val])
             ELSE Only({
                           IF cy.err # "none"
                           THEN [cy EXCEPT !.val =
                                    [s EXCEPT !.x_blocks[block_index + 1] = cx.val]]
                           ELSE Result("none", cy.heap,
                                       [s EXCEPT !.x_blocks[block_index + 1] = cx.val,
                                                 !.y_blocks[block_index + 1] = cy.val])
                       : cy \in {copy_block(cx.heap, ty, type, block_index, block_size, ub)}})
         : cx \in {copy_block(h, tx, type, block_index, block_size, ub)}})

\* the for loop of initialize, from block_index on
RECURSIVE set_blocks(_, _, _, _, _, _, _, _, _)
set_blocks(h, s, num_blocks, block_index, block_size, tx, ty, type, ub) ==
    IF block_index >= num_blocks THEN Result("none", h, s)
    ELSE Only({
                  IF r.err # "none" THEN r
                  ELSE set_blocks(r.heap, r.val, num_blocks, block_index + 1,
                                  block_size, tx, ty, type, ub)
              : r \in {set_block(h, s, block_index, block_size, tx, ty, type, ub)}})

initialize_copying(h, s, type, num_blocks, tx, ty, ub) ==
    LET num_rows   == h[tx].rows
        block_size == CeilDiv(FloatOf(num_rows), num_blocks)
    IN  set_blocks(h, s, num_blocks, 0, block_size, tx, ty, type, ub)

initialize(h, s, type, num_blocks, tx, ty, ub) ==
    IF num_blocks = 1
    THEN Result("none", h,
                [s EXCEPT !.x_blocks[1] = tx,
                          !.y_blocks = IF ty # Null THEN [@ EXCEPT ![1] = ty] ELSE @])
    ELSE LET num_rows   == h[tx].rows
             block_size == CeilDiv(FloatOf(num_rows), num_blocks)
         IN  set_blocks(h, s, num_blocks, 0, block_size, tx, ty, type, ub)

\* DataSlice(x, num_blocks, numeric_table_type)
DataSlice_x(h, tx, num_blocks, type, ub) ==
    initialize(h, [x_blocks |-> [i \in 1..num_blocks |-> Null],
                   y_blocks |-> <<>>,
                   labeled  |-> FALSE],
               type, num_blocks, tx, Null, ub)

\* DataSlice(x, y, num_blocks, numeric_table_type)
DataSlice_xy(h, tx, ty, num_blocks, type, ub) ==
    initialize(h, [x_blocks |-> [i \in 1..num_blocks |-> Null],
                   y_blocks |-> [i \in 1..num_blocks |-> Null],
                   labeled  |-> TRUE],
               type, num_blocks, tx, ty, ub)

----------------------------------------------------------------------------
(* The CSV collaborator: what FileDataSource::loadDataBlock leaves in a table *)

Paths == {"", "a.csv", "missing.csv", "bad.csv"}

can_open_file(path) == path \in {"a.csv", "bad.csv"}

CsvStatusOk(path) == path = "a.csv"

\* cell (r, c) of the feature columns and the response of row r (from 0);
\* all cells differ, and one of them needs more than 24 significant bits
CsvCell(r, c) == IF r = 0 /\ c = 0 THEN 16777217 ELSE 10 * r + c + 1

CsvLabel(r) == 100 + r

FeatureTable(type, num_cols, num_rows) ==
    [type |-> type, cols |-> num_cols, rows |-> num_rows,
     data |-> [k \in 1..(num_rows * num_cols) |->
                  StoreAs(type, CsvCell((k - 1) \div num_cols, (k - 1) % num_cols))]]

LabelTable(type, num_rows) ==
    [type |-> type, cols |-> 1, rows |-> num_rows,
     data |-> [k \in 1..num_rows |-> StoreAs(type, CsvLabel(k - 1))]]

\* columns of the feature table once the file is read
LoadedCols(num_features) == IF num_features > 0 THEN num_features ELSE CsvCols

----------------------------------------------------------------------------
(* DatasetFromCsv *)

Roles == {"train", "test", "full", "index"}

\* the builder as its constructor leaves it
NewBuilder ==
    [path_to_train |-> "", path_to_test |-> "", path_to_full |-> "",
     path_to_index |-> "", num_features |-> 0, num_responses |-> 0,
     num_blocks |-> 1, num_tries |-> 0, labeled |-> TRUE]

PathOf(b, role) ==
    CASE role = "train" -> b.path_to_train
      [] role = "test"  -> b.path_to_test
      [] role = "full"  -> b.path_to_full
      [] role = "index" -> b.path_to_index

\* the locals x and y of a loader go out of scope when it returns
DropLocals(h, locals, s) ==
    [i \in Slots |-> IF i \in locals \ SliceHandles(s) THEN NoTable ELSE h[i]]

\* what a loader returns once the slice is built: its locals are gone
Built(r, locals) ==
    IF r.err # "none" THEN [r EXCEPT !.val = EmptySlice]
    ELSE [r EXCEPT !.heap = DropLocals(r.heap, locals, r.val)]

load_no_response_variable(h, b, path, type, ub) ==
    Only({
             IF tx.err # "none" THEN [tx EXCEPT !.val = EmptySlice]
             ELSE IF ~CsvStatusOk(path) THEN Result("CannotReadCsv", tx.heap, EmptySlice)
             ELSE Only({
                           Only({Built(r, {tx.val})
                                : r \in {DataSlice_x(h1, tx.val, b.num_blocks, type, ub)}})
                       : h1 \in {[tx.heap EXCEPT ![tx.val] =
                           FeatureTable(type, LoadedCols(b.num_features), CsvRows)]}})
         : tx \in {create_numeric_table(h, type, b.num_features, 0, ub)}})

\* x and y once both are created and the file is read into the merged table
load_merged(h, b, path, type, ub, tx, ty) ==
    IF ~CsvStatusOk(path) THEN Result("CannotReadCsv", h, EmptySlice)
    ELSE Only({
                  Only({Built(r, {tx, ty})
                       : r \in {DataSlice_xy(h1, tx, ty, b.num_blocks, type, ub)}})
              : h1 \in {[h EXCEPT ![tx] = FeatureTable(type, b.num_features, CsvRows),
                        ![ty] = LabelTable(type, CsvRows)]}})

load_with_response_variable(h, b, path, type, ub) ==
    IF b.num_features = 0 THEN Result("CannotLoadDataset", h, EmptySlice)
    ELSE Only({
                  IF tx.err # "none" THEN [tx EXCEPT !.val = EmptySlice]
                  ELSE Only({
                                IF ty.err # "none" THEN [ty EXCEPT !.val = EmptySlice]
                                ELSE load_merged(ty.heap, b, path, type, ub,
                                                 tx.val, ty.val)
                            : ty \in {create_numeric_table(tx.heap, type, 1, 0, ub)}})
              : tx \in {create_numeric_table(h, type, b.num_features, 0, ub)}})

load_slice_labels_first(h, b, path, type, ub) ==
    IF path = "" THEN Result("none", h, make_empty)
    ELSE IF b.labeled /\ b.num_responses > 0
    THEN load_with_response_variable(h, b, path, type, ub)
    ELSE IF ~can_open_file(path) THEN Result("CannotOpenFile", h, EmptySlice)
    ELSE load_no_response_variable(h, b, path, type, ub)

load_slice(h, b, path, type, ub) ==
    IF path = "" THEN Result("none", h, make_empty)
    ELSE IF ~can_open_file(path) THEN Result("CannotOpenFile", h, EmptySlice)
    ELSE IF b.labeled /\ b.num_responses > 0
    THEN load_with_response_variable(h, b, path, type, ub)
    ELSE load_no_response_variable(h, b, path, type, ub)

----------------------------------------------------------------------------
(* Dataset *)

EmptyDataset ==
    [train_slice |-> EmptySlice, test_slice |-> EmptySlice,
     full_slice |-> EmptySlice, index_slice |-> EmptySlice,
     num_features |-> 0, num_responses |-> 0, num_tries |-> 0]

\* Dataset(train_slice, test_slice, full_slice, index_slice)
Dataset(train_slice, test_slice, full_slice, index_slice) ==
    [EmptyDataset EXCEPT !.train_slice = train_slice, !.test_slice = test_slice,
                         !.full_slice = full_slice, !.index_slice = index_slice]

SliceOf(d, role) ==
    CASE role = "train" -> d.train_slice
      [] role = "test"  -> d.test_slice
      [] role = "full"  -> d.full_slice
      [] role = "index" -> d.index_slice

Dataset_clear(d) ==
    [d EXCEPT !.train_slice = DataSlice_clear(@), !.test_slice = DataSlice_clear(@),
              !.full_slice = DataSlice_clear(@), !.index_slice = DataSlice_clear(@)]

Got(s) == [err |-> "none", val |-> s]

Thrown(e) == [err |-> e, val |-> EmptySlice]

full(d) == IF empty(d.full_slice) THEN Thrown("EmptyNumericTable") ELSE Got(d.full_slice)

train(d) == IF empty(d.train_slice) THEN Thrown("EmptyNumericTable") ELSE Got(d.train_slice)

test(d) == IF empty(d.test_slice) THEN Thrown("EmptyNumericTable") ELSE Got(d.test_slice)

index(d) == IF empty(d.index_slice) THEN Thrown("EmptyNumericTable") ELSE Got(d.index_slice)

has_full(d) == ~empty(d.full_slice)

has_train(d) == ~empty(d.train_slice)

has_test(d) == ~empty(d.test_slice)

full_or_train_train_first(d) ==
    IF has_train(d) THEN train(d)
    ELSE IF has_full(d) THEN full(d)
    ELSE Thrown("EmptyNumericTable")

full_or_train(d) ==
    IF has_full(d) THEN full(d)
    ELSE IF has_train(d) THEN train(d)
    ELSE Thrown("EmptyNumericTable")

full_or_test(d) ==
    IF has_full(d) THEN full(d)
    ELSE IF has_test(d) THEN test(d)
    ELSE Thrown("EmptyNumericTable")

\* the slices load() has got so far, in the order it loads them
Roles4 == <<"train", "test", "full", "index">>

\* load_slice for the paths from position k on; got holds the slices before
RECURSIVE load_slices(_, _, _, _, _, _)
load_slices(h, b, type, ub, k, got) ==
    IF k > Len(Roles4) THEN [err |-> "none", heap |-> h, val |-> got, req |-> 0, role |-> "none"]
    ELSE Only({
                  IF r.err # "none"
                  THEN [err |-> r.err, heap |-> r.heap, val |-> got, req |-> r.req,
                        role |-> Roles4[k]]
                  ELSE load_slices(r.heap, b, type, ub, k + 1, Append(got, r.val))
              : r \in {load_slice(h, b, PathOf(b, Roles4[k]), type, ub)}})

load_swapped(h, b, type, ub) ==
    Only({
             IF r.err # "none" THEN [r EXCEPT !.val = EmptyDataset]
             ELSE [r EXCEPT !.val =
                      [Dataset(r.val[2], r.val[1], r.val[3], r.val[4])
                           EXCEPT !.num_responses = b.num_responses,
                                  !.num_tries = b.num_tries,
                                  !.num_features = b.num_features]]
         : r \in {load_slices(h, b, type, ub, 1, <<>>)}})

load(h, b, type, ub) ==
    Only({
             IF r.err # "none" THEN [r EXCEPT !.val = EmptyDataset]
             ELSE [r EXCEPT !.val =
                      [Dataset(r.val[1], r.val[2], r.val[3], r.val[4])
                           EXCEPT !.num_responses = b.num_responses,
                                  !.num_tries = b.num_tries,
                                  !.num_features = b.num_features]]
         : r \in {load_slices(h, b, type, ub, 1, <<>>)}})

----------------------------------------------------------------------------
(* Holders of table handles and release of unreferenced tables *)

DatasetHandles(d) ==
    SliceHandles(d.train_slice) \cup SliceHandles(d.test_slice)
        \cup SliceHandles(d.full_slice) \cup SliceHandles(d.index_slice)

NoRet ==
    [op |-> "none", err |-> "none", num |-> 0, num2 |-> 0, type |-> "none",
     src |-> Null, tbl |-> Null, slice |-> EmptySlice, flag |-> FALSE, req |-> 0,
     role |-> "none"]

Held_by_dataset(sx, sy, s, d, r) ==
    (({sx, sy, r.tbl} \ {Null, Wild}) \cup DatasetHandles(d)) \cup SliceHandles(r.slice)

Held(sx, sy, s, d, r) ==
    (({sx, sy, r.tbl} \ {Null, Wild}) \cup SliceHandles(s) \cup DatasetHandles(d))
        \cup SliceHandles(r.slice)

\* a table is destroyed when its last handle is dropped
Release(h, held) ==
    Only({[i \in Slots |-> IF i \in keep THEN h[i] ELSE NoTable]
    : keep \in {held}})

----------------------------------------------------------------------------
(* Calls on a DataSlice made by a caller that holds a feature and a label table *)

InitSlice ==
    \E R \in 0..MaxRows, C \in 1..MaxCols, type \in Supported :
        /\ heap = [i \in Slots |-> IF i = 1 THEN FeatureTable(type, C, R)
                                   ELSE IF i = 2 THEN LabelTable(type, R)
                                   ELSE NoTable]
        /\ src_x = 1
        /\ src_y = 2
        /\ sl = EmptySlice
        /\ builder = NewBuilder
        /\ ds = EmptyDataset
        /\ pc = "slice"
        /\ ret = NoRet

SliceFrame == UNCHANGED <<src_x, src_y, builder, ds, pc>>

\* the numeric table type the benchmark passes is the one its tables have;
\* Other stands for any enumerator the factory does not implement
TypeArgs == {heap[src_x].type, Other}

Finish(h, s, r) ==
    /\ sl' = s
    /\ ret' = r
    /\ heap' = Release(h, Held(src_x, src_y, s, ds, r))
    /\ SliceFrame

\* the result of the previous call is a temporary of the caller: it is gone
\* when the next call starts
Start == Release(heap, Held(src_x, src_y, sl, ds, NoRet))

\* a constructor call replaces the caller's slice: the old object is destroyed
StartNew == Release(heap, Held(src_x, src_y, EmptySlice, ds, NoRet))

CallMakeEmpty ==
    Finish(StartNew, make_empty, [NoRet EXCEPT !.op = "make_empty"])

CallDataSlice_x ==
    \E num_blocks \in 0..MaxBlocks, type \in TypeArgs, ub \in AllocOutcomes :
        \E h0 \in {StartNew} : \E r \in {DataSlice_x(h0, src_x, num_blocks, type, ub)} :
            /\ r.err \in AllocOutcomes \/ ub = "EmptyNumericTable"
            /\ Finish(r.heap, IF r.err = "none" THEN r.val ELSE EmptySlice,
                      [NoRet EXCEPT !.op = "DataSlice_x", !.err = r.err,
                                    !.num = num_blocks, !.type = type,
                                    !.req = r.req])

CallDataSlice_xy ==
    \E num_blocks \in 0..MaxBlocks, type \in TypeArgs, ub \in AllocOutcomes :
        \E h0 \in {StartNew} : \E r \in {DataSlice_xy(h0, src_x, src_y, num_blocks, type, ub)} :
            /\ r.err \in AllocOutcomes \/ ub = "EmptyNumericTable"
            /\ Finish(r.heap, IF r.err = "none" THEN r.val ELSE EmptySlice,
                      [NoRet EXCEPT !.op = "DataSlice_xy", !.err = r.err,
                                    !.num = num_blocks, !.type = type,
                                    !.req = r.req])

CallClear ==
    Finish(Start, DataSlice_clear(sl), [NoRet EXCEPT !.op = "clear"])

CallX ==
    LET r == x(sl)
    IN  Finish(Start, sl, [NoRet EXCEPT !.op = "x", !.err = r.err, !.tbl = r.val])

CallY ==
    LET r == y(sl)
    IN  Finish(Start, sl, [NoRet EXCEPT !.op = "y", !.err = r.err, !.tbl = r.val])

CallXBlock ==
    \E block_index \in 0..MaxBlocks, ub \in ReadOutcomes :
        LET r == x_block(sl, block_index, ub)
        IN  /\ (Len(sl.x_blocks) > 0 /\ block_index >= Len(sl.x_blocks)) \/ ub = "null"
            /\ Finish(Start, sl, [NoRet EXCEPT !.op = "x_block", !.err = r.err,
                                               !.num = block_index, !.tbl = r.val])

CallYBlock ==
    \E block_index \in 0..MaxBlocks, ub \in ReadOutcomes :
        LET r == y_block(sl, block_index, ub)
        IN  /\ (Len(sl.y_blocks) > 0 /\ block_index >= Len(sl.y_blocks)) \/ ub = "null"
            /\ Finish(Start, sl, [NoRet EXCEPT !.op = "y_block", !.err = r.err,
                                               !.num = block_index, !.tbl = r.val])

CallEmpty ==
    Finish(Start, sl, [NoRet EXCEPT !.op = "empty", !.flag = empty(sl)])

CallCopyBlock ==
    \E t \in {src_x, src_y}, block_index \in 0..MaxBlocks,
       block_size \in 0..(MaxRows + 1), ub \in AllocOutcomes :
        \E type \in {heap[t].type}, h0 \in {Start} :
        \E r \in {copy_block(h0, t, type, block_index, block_size, ub)} :
            /\ r.err \in AllocOutcomes \/ ub = "EmptyNumericTable"
            /\ Finish(r.heap, sl,
                      [NoRet EXCEPT !.op = "copy_block", !.err = r.err, !.src = t,
                                    !.num = block_index, !.num2 = block_size,
                                    !.type = type, !.tbl = r.val, !.req = r.req])

NextSlice ==
    \/ CallMakeEmpty
    \/ CallDataSlice_x
    \/ CallDataSlice_xy
    \/ CallClear
    \/ CallX
    \/ CallY
    \/ CallXBlock
    \/ CallYBlock
    \/ CallEmpty

SpecSlice == InitSlice /\ [][NextSlice]_vars

\* copy_block on its own, for every table, block index and block size
NextCopy == CallCopyBlock

SpecCopy == InitSlice /\ [][NextCopy]_vars

----------------------------------------------------------------------------
(* Configuring a DatasetFromCsv and loading it *)

NoHeap == [i \in Slots |-> NoTable]

InitLoad ==
    /\ heap = NoHeap
    /\ src_x = Null
    /\ src_y = Null
    /\ sl = EmptySlice
    /\ builder = NewBuilder
    /\ ds = EmptyDataset
    /\ pc = "build"
    /\ ret = NoRet

Configure(b) ==
    /\ pc = "build"
    /\ builder' = b
    /\ ret' = NoRet
    /\ UNCHANGED <<heap, src_x, src_y, sl, ds, pc>>

Builder_path_to_full == \E value \in Paths : Configure([builder EXCEPT !.path_to_full = value])

Builder_path_to_train == \E value \in Paths : Configure([builder EXCEPT !.path_to_train = value])

Builder_path_to_test == \E value \in Paths : Configure([builder EXCEPT !.path_to_test = value])

Builder_path_to_index == \E value \in Paths : Configure([builder EXCEPT !.path_to_index = value])

Builder_num_features ==
    \E n \in 0..MaxFeatures : Configure([builder EXCEPT !.num_features = n])

Builder_num_responses ==
    \E n \in 0..MaxResponses : Configure([builder EXCEPT !.num_responses = n])

Builder_num_blocks ==
    \E n \in 0..MaxBlocks : Configure([builder EXCEPT !.num_blocks = n])

Builder_num_tries ==
    \E n \in 0..MaxTries : Configure([builder EXCEPT !.num_tries = n])

Builder_regression == Configure([builder EXCEPT !.num_responses = 1])

Builder_unlabeled == Configure([builder EXCEPT !.labeled = FALSE])

\* load(): a Dataset is returned, or the exception ends the benchmark case
Builder_load ==
    \E type \in NumericTableType, ub \in AllocOutcomes :
        \E r \in {load(heap, builder, type, ub)} :
            /\ pc = "build"
            /\ r.err \in AllocOutcomes \/ ub = "EmptyNumericTable"
            /\ ds' = r.val
            /\ pc' = IF r.err = "none" THEN "loaded" ELSE "failed"
            /\ ret' = [NoRet EXCEPT !.op = "load", !.err = r.err, !.type = type,
                                    !.role = r.role, !.req = r.req]
            /\ heap' = Release(r.heap, DatasetHandles(r.val))
            /\ UNCHANGED <<src_x, src_y, sl, builder>>

NextLoad ==
    \/ Builder_path_to_full
    \/ Builder_path_to_train
    \/ Builder_path_to_test
    \/ Builder_path_to_index
    \/ Builder_num_features
    \/ Builder_num_responses
    \/ Builder_num_blocks
    \/ Builder_num_tries
    \/ Builder_regression
    \/ Builder_unlabeled
    \/ Builder_load

SpecLoad == InitLoad /\ [][NextLoad]_vars

----------------------------------------------------------------------------
(* Calls on a Dataset that load() returned *)

\* the files load() can read
Readable == {path \in Paths : path = "" \/ (can_open_file(path) /\ CsvStatusOk(path))}

InitDataset ==
    \E ptrain \in Readable, ptest \in Readable, pfull \in Readable, pindex \in Readable,
       nr \in 0..MaxResponses, nb \in 0..MaxBlocks, lab \in BOOLEAN, type \in Supported :
        \E b \in {[path_to_train |-> ptrain, path_to_test |-> ptest,
                    path_to_full |-> pfull, path_to_index |-> pindex,
                    num_features |-> MaxFeatures, num_responses |-> nr,
                    num_blocks |-> nb, num_tries |-> MaxTries, labeled |-> lab]} :
        \E r \in {load(NoHeap, b, type, "EmptyNumericTable")} :
            /\ r.err = "none"
            /\ builder = b
            /\ ds = r.val
            /\ heap = Release(r.heap, DatasetHandles(r.val))
            /\ src_x = Null
            /\ src_y = Null
            /\ sl = EmptySlice
            /\ pc = "loaded"
            /\ ret = [NoRet EXCEPT !.op = "load", !.type = type]

\* a call on the Dataset: d is the Dataset it leaves, r what it returns
DatasetCall(d, r) ==
    /\ ds' = d
    /\ ret' = r
    /\ heap' = Release(heap, Held(src_x, src_y, sl, d, r))
    /\ UNCHANGED <<src_x, src_y, sl, builder, pc>>

Returned(name, r) == [NoRet EXCEPT !.op = name, !.err = r.err, !.slice = r.val]

CallDatasetClear == DatasetCall(Dataset_clear(ds), [NoRet EXCEPT !.op = "Dataset_clear"])

CallFull == DatasetCall(ds, Returned("full", full(ds)))

CallTrain == DatasetCall(ds, Returned("train", train(ds)))

CallTest == DatasetCall(ds, Returned("test", test(ds)))

CallIndex == DatasetCall(ds, Returned("index", index(ds)))

CallFullOrTrain == DatasetCall(ds, Returned("full_or_train", full_or_train(ds)))

CallFullOrTest == DatasetCall(ds, Returned("full_or_test", full_or_test(ds)))

CallHasFull == DatasetCall(ds, [NoRet EXCEPT !.op = "has_full", !.flag = has_full(ds)])

CallHasTrain == DatasetCall(ds, [NoRet EXCEPT !.op = "has_train", !.flag = has_train(ds)])

CallHasTest == DatasetCall(ds, [NoRet EXCEPT !.op = "has_test", !.flag = has_test(ds)])

NextDataset ==
    \/ CallDatasetClear
    \/ CallFull
    \/ CallTrain
    \/ CallTest
    \/ CallIndex
    \/ CallFullOrTrain
    \/ CallFullOrTest
    \/ CallHasFull
    \/ CallHasTrain
    \/ CallHasTest

SpecDataset == InitDataset /\ [][NextDataset]_vars

----------------------------------------------------------------------------
(* A caller that keeps the DataSlice a Dataset accessor returned: sl is the
   caller's copy, ds the Dataset *)

\* the caller's copy and the Dataset after a step; every table without a
\* holder left is destroyed
HolderStep(s, d, r) ==
    /\ sl' = s
    /\ ds' = d
    /\ ret' = r
    /\ heap' = Release(heap, Held(src_x, src_y, s, d, NoRet))
    /\ UNCHANGED <<src_x, src_y, builder, pc>>

\* slice = ds.role(): the copy replaces the caller's slice unless the
\* accessor throws
Keep(name, r) ==
    HolderStep(IF r.err = "none" THEN r.val ELSE sl, ds,
               [NoRet EXCEPT !.op = name, !.err = r.err])

KeepFull == Keep("full", full(ds))

KeepTrain == Keep("train", train(ds))

KeepTest == Keep("test", test(ds))

KeepIndex == Keep("index", index(ds))

\* slice.clear() on the caller's copy
CopyClear == HolderStep(DataSlice_clear(sl), ds, [NoRet EXCEPT !.op = "clear"])

\* the caller's copy goes out of scope: ~DataSlice() clears it and its
\* vectors are gone
CopyDestroy == HolderStep(EmptySlice, ds, [NoRet EXCEPT !.op = "~DataSlice"])

\* dataset.clear() while the caller still has its copy
HolderDatasetClear == HolderStep(sl, Dataset_clear(ds), [NoRet EXCEPT !.op = "Dataset_clear"])

NextHolder ==
    \/ KeepFull
    \/ KeepTrain
    \/ KeepTest
    \/ KeepIndex
    \/ CopyClear
    \/ CopyDestroy
    \/ HolderDatasetClear

SpecHolder == InitDataset /\ [][NextHolder]_vars

----------------------------------------------------------------------------
(* Properties of DataSlice, checked under SpecSlice *)

Constructed == ret.op \in {"DataSlice_x", "DataSlice_xy"}

RowsOf(t) == heap[t].rows

RECURSIVE SumRows(_)
SumRows(blocks) ==
    IF blocks = <<>> THEN 0 ELSE RowsOf(Head(blocks)) + SumRows(Tail(blocks))

\* table b holds rows first .. first + RowsOf(b) - 1 of table t, cell for cell
HoldsRows(b, t, first) ==
    /\ heap[b].cols = heap[t].cols
    /\ first + RowsOf(b) <= RowsOf(t)
    /\ \A r \in 0..(RowsOf(b) - 1), c \in 0..(heap[b].cols - 1) :
           heap[b].data[r * heap[b].cols + c + 1]
               = heap[t].data[(first + r) * heap[t].cols + c + 1]

Min(a, b) == IF a < b THEN a ELSE b

\* C1: for every row count R and every num_blocks > 1, constructing a
\* DataSlice from a table of R rows yields num_blocks blocks whose row counts
\* add up to R; every block but the last has ceil(R / num_blocks) rows and the
\* last one has the remaining rows, a number that is not negative
C1_BlockPartition ==
    (Constructed /\ ret.num > 1 /\ ret.type \in Supported) =>
        LET R  == RowsOf(src_x)
            bs == CeilDiv(R, ret.num)
        IN  /\ ret.err = "none"
            /\ ret.req = 0
            /\ Len(sl.x_blocks) = ret.num
            /\ \A i \in 1..ret.num : sl.x_blocks[i] # Null
            /\ SumRows(sl.x_blocks) = R
            /\ \A i \in 1..(ret.num - 1) : RowsOf(sl.x_blocks[i]) = bs
            /\ RowsOf(sl.x_blocks[ret.num]) = R - (ret.num - 1) * bs
            /\ R - (ret.num - 1) * bs >= 0

\* C2: a DataSlice constructed with num_blocks = 1 makes no copy: x() and
\* x_block(0) are the caller's feature table itself, y() and y_block(0) of a
\* labeled slice are the caller's label table itself, and no table is allocated
C2_SingleBlockShares ==
    (Constructed /\ ret.num = 1) =>
        /\ ret.err = "none"
        /\ x(sl) = [err |-> "none", val |-> src_x]
        /\ \A ub \in ReadOutcomes : x_block(sl, 0, ub) = [err |-> "none", val |-> src_x]
        /\ ret.op = "DataSlice_xy" =>
               /\ y(sl) = [err |-> "none", val |-> src_y]
               /\ \A ub \in ReadOutcomes :
                      y_block(sl, 0, ub) = [err |-> "none", val |-> src_y]
        /\ {i \in Slots : heap[i] # NoTable} = {src_x, src_y}

C2_Witness ==
    /\ ret.op = "DataSlice_xy"
    /\ ret.num = 1
    /\ ret.err = "none"
    /\ RowsOf(src_x) = MaxRows
    /\ sl.x_blocks = <<src_x>>

\* C3: the table copy_block returns holds, at every row r and column c, the
\* value the source table holds at row block_index * block_size + r and
\* column c, for feature tables and label tables alike; its rows are the rows
\* start_row .. end_row - 1 of the source
C3_CopyBlockRoundTrip ==
    (ret.op = "copy_block" /\ ret.err = "none") =>
        /\ ret.tbl \notin {Null, ret.src}
        /\ RowsOf(ret.tbl)
               = Min(ret.num * ret.num2 + ret.num2, RowsOf(ret.src)) - ret.num * ret.num2
        /\ HoldsRows(ret.tbl, ret.src, ret.num * ret.num2)

C3_Witness ==
    /\ ret.op = "copy_block"
    /\ ret.err = "none"
    /\ ret.src = src_x
    /\ ret.num >= 1
    /\ RowsOf(ret.tbl) >= 1
    /\ heap[ret.tbl].cols = MaxCols
    /\ heap[ret.tbl].type = Double

\* C4: x_block(i) and y_block(i) return the non-null handle stored at
\* position i of the block sequence or fail with EmptyNumericTable, and they
\* fail with EmptyNumericTable whenever i is out of range or block i is
\* unpopulated
C4_BlockAccess ==
    (ret.op \in {"x_block", "y_block"}) =>
        LET blocks == IF ret.op = "x_block" THEN sl.x_blocks ELSE sl.y_blocks
        IN  IF ret.num >= Len(blocks) \/ blocks[ret.num + 1] = Null
            THEN ret.err = "EmptyNumericTable"
            ELSE ret.err = "none" /\ ret.tbl = blocks[ret.num + 1]

\* C10: in a labeled DataSlice x_blocks and y_blocks have the same length,
\* and block i of the one and block i of the other cover the same rows of
\* their source tables: the same first row and the same number of rows
C10_BlocksAligned ==
    sl.labeled =>
        /\ Len(sl.x_blocks) = Len(sl.y_blocks)
        /\ \A i \in 1..Len(sl.x_blocks) :
               /\ sl.x_blocks[i] = Null <=> sl.y_blocks[i] = Null
               /\ sl.x_blocks[i] # Null =>
                      /\ RowsOf(sl.x_blocks[i]) = RowsOf(sl.y_blocks[i])
                      /\ \E first \in 0..RowsOf(src_x) :
                             /\ HoldsRows(sl.x_blocks[i], src_x, first)
                             /\ HoldsRows(sl.y_blocks[i], src_y, first)

C10_Witness ==
    /\ sl.labeled
    /\ Len(sl.x_blocks) = 2
    /\ sl.x_blocks[2] # Null
    /\ RowsOf(sl.x_blocks[1]) = 2
    /\ RowsOf(sl.y_blocks[2]) = 1

----------------------------------------------------------------------------
(* Properties of Dataset, checked under SpecDataset *)

\* the block sequences a slice needs are there
HasBlocks(s) == Len(s.x_blocks) > 0 /\ (s.labeled => Len(s.y_blocks) > 0)

RoleOfCall(name) ==
    CASE name = "full" -> "full"
      [] name = "train" -> "train"
      [] name = "test" -> "test"
      [] name = "index" -> "index"
      [] name = "has_full" -> "full"
      [] name = "has_train" -> "train"
      [] name = "has_test" -> "test"

\* C5: after Dataset::clear() the four slices are empty: empty() is true of
\* each, has_full(), has_train() and has_test() are false, and full(),
\* train(), test() and index() fail with EmptyNumericTable
C5_ClearEmpties ==
    (ret.op = "Dataset_clear") =>
        /\ \A role \in Roles : empty(SliceOf(ds, role))
        /\ ~has_full(ds) /\ ~has_train(ds) /\ ~has_test(ds)
        /\ full(ds).err = "EmptyNumericTable"
        /\ train(ds).err = "EmptyNumericTable"
        /\ test(ds).err = "EmptyNumericTable"
        /\ index(ds).err = "EmptyNumericTable"

\* C6: empty() of a slice is true exactly when x_blocks has no element or,
\* for a labeled slice, x_blocks or y_blocks has none; has_full(), has_train()
\* and has_test() return the negation of empty() of their slice and never fail
C6_EmptyIsLength ==
    /\ \A role \in Roles : empty(SliceOf(ds, role)) <=> ~HasBlocks(SliceOf(ds, role))
    /\ empty(ret.slice) <=> ~HasBlocks(ret.slice)
    /\ (ret.op \in {"has_full", "has_train", "has_test"}) =>
           /\ ret.err = "none"
           /\ ret.flag = HasBlocks(SliceOf(ds, RoleOfCall(ret.op)))

C6_Witness ==
    /\ ret.op = "has_train"
    /\ ret.flag
    /\ ds.train_slice.labeled
    /\ ds.train_slice.x_blocks[1] = Null
    /\ ~HasBlocks(ds.full_slice)

\* C7: full_or_train() returns the full slice when it is present, otherwise
\* the train slice when that is present, otherwise it fails with
\* EmptyNumericTable; full_or_test() does the same with the test slice; the
\* index slice plays no part
C7_Fallback ==
    /\ (ret.op = "full_or_train") =>
           IF has_full(ds) THEN ret.err = "none" /\ ret.slice = ds.full_slice
           ELSE IF has_train(ds) THEN ret.err = "none" /\ ret.slice = ds.train_slice
           ELSE ret.err = "EmptyNumericTable"
    /\ (ret.op = "full_or_test") =>
           IF has_full(ds) THEN ret.err = "none" /\ ret.slice = ds.full_slice
           ELSE IF has_test(ds) THEN ret.err = "none" /\ ret.slice = ds.test_slice
           ELSE ret.err = "EmptyNumericTable"

C7_Witness ==
    /\ ret.op = "full_or_train"
    /\ ret.err = "none"
    /\ has_full(ds) /\ has_train(ds) /\ has_test(ds) /\ ~empty(ds.index_slice)
    /\ ret.slice = ds.full_slice
    /\ ret.slice # ds.train_slice
    /\ ret.slice.x_blocks[1] # Null

----------------------------------------------------------------------------
(* Properties of DatasetFromCsv::load, checked under SpecLoad *)

AccessOf(d, role) ==
    CASE role = "train" -> train(d)
      [] role = "test"  -> test(d)
      [] role = "full"  -> full(d)
      [] role = "index" -> index(d)

\* C8: when load() succeeds for a builder with num_blocks >= 1, the slice of
\* each role is non-empty exactly when the path of that role was set, the
\* accessor of a role whose path was not set fails with EmptyNumericTable,
\* and num_features, num_responses and num_tries of the Dataset are the ones
\* of the builder
C8_LoadedSlices ==
    (pc = "loaded" /\ builder.num_blocks >= 1) =>
        /\ \A role \in Roles :
               /\ ~empty(SliceOf(ds, role)) <=> PathOf(builder, role) # ""
               /\ PathOf(builder, role) = "" =>
                      AccessOf(ds, role).err = "EmptyNumericTable"
               /\ PathOf(builder, role) # "" =>
                      AccessOf(ds, role) = Got(SliceOf(ds, role))
        /\ ds.num_features = builder.num_features
        /\ ds.num_responses = builder.num_responses
        /\ ds.num_tries = builder.num_tries

C8_Witness ==
    /\ pc = "loaded"
    /\ builder.num_blocks = 2
    /\ builder.path_to_train # ""
    /\ builder.path_to_test = ""
    /\ builder.path_to_full # ""
    /\ ~empty(ds.train_slice)
    /\ empty(ds.test_slice)
    /\ ds.num_tries = 1
    /\ ds.num_responses = 0
    /\ ds.num_features = MaxFeatures

LabelsWanted == builder.labeled /\ builder.num_responses > 0

\* C9: a path that is not set gives an empty slice and no error; a path that
\* is set and cannot be opened fails with CannotOpenFile whatever the other
\* settings are; for a path that can be opened labels are loaded exactly when
\* labeled is on and num_responses > 0, and then num_features = 0 fails with
\* CannotLoadDataset; a failed CSV load fails with CannotReadCsv; with
\* unlabeled() or num_responses = 0 CannotLoadDataset is never raised and
\* the slice is unlabeled
C9_LoadSliceOrder ==
    /\ (ret.op = "load" /\ ret.err # "none") =>
           LET path == PathOf(builder, ret.role)
           IN  /\ ret.role \in Roles
               /\ path # ""
               /\ ret.err = "CannotOpenFile" <=> ~can_open_file(path)
               /\ ret.err = "CannotLoadDataset" <=>
                      (can_open_file(path) /\ LabelsWanted /\ builder.num_features = 0)
               /\ ret.err = "CannotReadCsv" =>
                      can_open_file(path) /\ ~CsvStatusOk(path)
               /\ (can_open_file(path) /\ ~CsvStatusOk(path) /\ ret.type \in Supported
                       /\ ~(LabelsWanted /\ builder.num_features = 0)) =>
                      ret.err = "CannotReadCsv"
               /\ ~LabelsWanted => ret.err # "CannotLoadDataset"
    /\ (ret.op = "load" /\ ret.err = "none") =>
           \A role \in Roles :
               LET path == PathOf(builder, role)
                   s    == SliceOf(ds, role)
               IN  IF path = "" THEN s = EmptySlice
                   ELSE /\ can_open_file(path) /\ CsvStatusOk(path)
                        /\ ~(LabelsWanted /\ builder.num_features = 0)
                        /\ s.labeled <=> LabelsWanted
                        /\ Len(s.y_blocks) = IF LabelsWanted THEN builder.num_blocks ELSE 0

C9_Witness ==
    /\ ret.op = "load"
    /\ ret.err = "CannotOpenFile"
    /\ ret.role = "test"
    /\ builder.path_to_train = ""
    /\ builder.path_to_index # ""
    /\ LabelsWanted
    /\ builder.num_features = 0


----------------------------------------------------------------------------
(* Properties of a returned DataSlice copy, checked under SpecHolder *)

\* every table one of the handles names is alive and is the same table after
\* the step
TablesKept(handles) ==
    \A t \in handles : heap[t] # NoTable /\ heap'[t] = heap[t]

\* C11: a DataSlice returned by Dataset::full()/train()/test()/index() holds
\* the shared tables on its own: clearing or destroying the returned copy
\* leaves the Dataset's slices and the tables they name unchanged, and
\* Dataset::clear() leaves the handles of a copy returned earlier unchanged,
\* non-null where they were, and naming the same live tables
C11_CopyHoldsTables ==
    [][/\ (CopyClear \/ CopyDestroy) =>
              /\ ds' = ds
              /\ TablesKept(DatasetHandles(ds))
       /\ HolderDatasetClear =>
              /\ sl' = sl
              /\ SliceHandles(sl') = SliceHandles(sl)
              /\ TablesKept(SliceHandles(sl))
              /\ DatasetHandles(ds') = {}]_vars

\* Dataset::clear() has run while the caller holds a copy with live tables
\* that the Dataset no longer names
C11_Witness ==
    /\ ret.op = "Dataset_clear"
    /\ SliceHandles(sl) # {}
    /\ DatasetHandles(ds) = {}
    /\ \A t \in SliceHandles(sl) : heap[t] # NoTable

====
